---- MODULE Spec2Model ----
(***************************************************************************)
(* Model of the mlflow-server charm (charms/mlflow-server/src/charm.py).   *)
(*                                                                         *)
(* The charm is an event handler: the framework delivers one event at a    *)
(* time, and each event runs the handler registered for it to completion:  *)
(* Operator.main (the reconciliation pass) for seven events, and           *)
(* Operator._on_pod_defaults_relation_changed for the two pod-defaults     *)
(* events.  The state is what the platform holds for the unit between and  *)
(* during hooks (unit status, submitted pod spec, data published on the    *)
(* ingress and pod-defaults relations), what the platform shows to the     *)
(* charm (leadership, config, relations, the image resource), and the      *)
(* position and locals of the running handler.                             *)
(*                                                                         *)
(* Three specifications: Spec follows the passes of main over every input, *)
(* SpecHandlers both handlers over the inputs the pod-defaults handler     *)
(* reads, SpecNames the passes of a leader over bucket names.              *)
(*                                                                         *)
(* Text values that are only compared or concatenated are TLA+ strings;    *)
(* relation and config values are tuples of one-character strings.         *)
(***************************************************************************)
EXTENDS Integers, Sequences, FiniteSets, TLC

VARIABLES
    env,          \* what the platform shows: leader, config, relations, image
    status,       \* self.model.unit.status: [kind, msg]
    message,      \* self.model.unit.message (attribute set at line 112)
    podSpec,      \* the spec last handed to self.model.pod.set_spec: <<>> or <<spec>>
    ingressData,  \* the data last sent on the ingress relation: <<>> or <<data>>
    pc,           \* position of the running handler
    locals,       \* the handler's local variables
    checked,      \* checks evaluated so far in the current pass, in order
    effects,      \* platform calls made so far in the current pass, in order
    error,        \* the exception that escaped the current handler, or None
    last,         \* how the last pass of main ended, the inputs the same ever since
    podDefaults   \* what the charm has written on the pod-defaults relation

vars ==
    <<env, status, message, podSpec, ingressData, pc, locals, checked, effects, error, last,
      podDefaults>>

None == "None"

----------------------------------------------------------------------------
(* Bounds of the model *)

\* most relations on the "db" endpoint
MaxDbRelations == 2
\* most remote units in one "db" relation
MaxUnits == 2
\* most providers that publish data on the "object-storage" endpoint
MaxProviders == 2
\* most inputs that differ at once from the working deployment
MaxDepartures == 2

----------------------------------------------------------------------------
(* Text *)

\* The one-character strings of a tuple joined into one string (str of a value).
RECURSIVE Str(_)
Str(s) == IF s = <<>> THEN "" ELSE Head(s) \o Str(Tail(s))

\* The keys of a dict d restricted to K (a record some keys of which are unpublished).
Without(d, k) == [x \in (DOMAIN d) \ {k} |-> d[x]]

HasKey(d, k) == k \in DOMAIN d

InSeq(x, s) == \E i \in 1..Len(s) : s[i] = x

Count(x, s) == Cardinality({ i \in 1..Len(s) : s[i] = x })

----------------------------------------------------------------------------
(* What the platform shows to the charm *)

\* self.model.app.name
AppName == "mlflow-server"

\* config values of default_artifact_root: one valid S3 bucket name, one too short
BucketNames == { <<"m","l","f","l","o","w">>, <<"a","b">> }

Configs ==
    { [default_artifact_root |-> b, mlflow_port |-> 5000, mlflow_nodeport |-> 31380,
       kubeflow_port |-> 31381, kubeflow_nodeport |-> 31382] : b \in BucketNames }

\* A complete record of an object-storage provider, and a second provider's.
ObjA ==
    [k \in {"service", "namespace", "port", "access-key", "secret-key", "secure"} |->
        CASE k = "service"    -> <<"m","i","n","i","o">>
          [] k = "namespace"  -> <<"n","s">>
          [] k = "port"       -> <<"9","0","0","0">>
          [] k = "access-key" -> <<"a","k">>
          [] k = "secret-key" -> <<"s","k">>
          [] k = "secure"     -> <<"f","a","l","s","e">>]

ObjB == [ObjA EXCEPT !["service"] = <<"s","3">>, !["secure"] = <<"T","r","u","e">>]

\* A provider that has not published its secret key.
ObjPartial == Without(ObjA, "secret-key")

ObjRecords == {ObjA, ObjB, ObjPartial}

\* Sequences of length n of distinct elements of S.
RECURSIVE DistinctSeqs(_, _)
DistinctSeqs(S, n) ==
    IF n = 0 THEN {<<>>}
    ELSE { Append(s, x) : s \in DistinctSeqs(S, n - 1), x \in S } \cap
         { s \in [1..n -> S] : \A i, j \in 1..n : i # j => s[i] # s[j] }

\* interfaces["object-storage"]: absent (None) without the relation, else the
\* records of get_data().values(), in the order the library lists them.
ObjStorageStates ==
    { [present |-> FALSE, data |-> <<>>] } \cup
    { [present |-> TRUE, data |-> d] :
        d \in UNION { DistinctSeqs(ObjRecords, n) : n \in 0..MaxProviders } }

\* The record a unit of the database publishes, complete and partial.
DbComplete ==
    [root_password |-> <<"p","w">>, host |-> <<"h">>, port |-> <<"3","3","0","6">>,
     database |-> <<"m","l","f","l","o","w">>]

DbRecords == {DbComplete, Without(DbComplete, "host"), Without(DbComplete, "database")}

\* A "db" relation: the data of its remote units (mysql.units is a set).
DbRelations == { us \in SUBSET DbRecords : Cardinality(us) <= MaxUnits }

\* self.model.relations["db"]: no relation, one relation, or several.
DbRelationLists ==
    { <<r>> : r \in DbRelations } \cup
    { [i \in 1..n |-> {DbComplete}] : n \in 0..MaxDbRelations }

\* get_interfaces(self): the interfaces, or one of the library's two errors.
Negotiations ==
    { [exc |-> None, text |-> ""],
      [exc |-> "NoVersionsListed", text |-> "No versions found listed for object-storage"],
      [exc |-> "NoCompatibleVersions",
       text |-> "No compatible versions found for apps: minio"] }

ImageDetails == [imagePath |-> "registry/mlflow:v1", username |-> "", password |-> ""]

\* self.image.fetch(): the image details, or an OCIImageResourceError carrying
\* its own status type and status message.
ImageResults ==
    { [exc |-> None, status_type |-> None, status_message |-> ""],
      [exc |-> "OCIImageResourceError", status_type |-> "Blocked",
       status_message |-> "Missing resource: oci-image"],
      [exc |-> "OCIImageResourceError", status_type |-> "Waiting",
       status_message |-> "Resource not yet available: oci-image"] }

AllEnvs ==
    [leader : BOOLEAN, config : Configs, negotiation : Negotiations,
     image : ImageResults, ingress : BOOLEAN, db : DbRelationLists,
     objStorage : ObjStorageStates]

\* The deployment that works: the leader, the default bucket, one database unit
\* and one object-storage provider with complete records, the image fetched.
Working ==
    [leader |-> TRUE,
     config |-> CHOOSE c \in Configs : c.default_artifact_root = <<"m","l","f","l","o","w">>,
     negotiation |-> CHOOSE n \in Negotiations : n.exc = None,
     image |-> CHOOSE i \in ImageResults : i.exc = None,
     ingress |-> FALSE,
     db |-> << {DbComplete} >>,
     objStorage |-> [present |-> TRUE, data |-> <<ObjA>>]]

\* The inputs in which e differs from the working deployment (the ingress
\* relation is optional and not counted).
Departures(e) ==
    { f \in {"leader", "config", "negotiation", "image", "db", "objStorage"} :
        e[f] # Working[f] }

\* What the platform can show: at most MaxDepartures departures at once.
Envs == { e \in AllEnvs : Cardinality(Departures(e)) <= MaxDepartures }

----------------------------------------------------------------------------
(* Status values (ops.model) and CheckFailedError *)

WaitingStatus(msg)     == [kind |-> "Waiting", msg |-> msg]
BlockedStatus(msg)     == [kind |-> "Blocked", msg |-> msg]
MaintenanceStatus(msg) == [kind |-> "Maintenance", msg |-> msg]
ActiveStatus           == [kind |-> "Active", msg |-> ""]

\* The status of the unit before the charm has written one.
Unset == [kind |-> "Unset", msg |-> ""]

\* CheckFailedError with the status type left at its default, StatusBase.
CheckFailedError_Default(msg, status_type) ==
    [msg |-> msg, status_type |-> "StatusBase",
     status |-> [kind |-> "StatusBase", msg |-> msg]]

\* CheckFailedError(msg, status_type): msg, status_type and status_type(msg).
CheckFailedError(msg, status_type) ==
    [msg |-> msg, status_type |-> status_type,
     status |-> [kind |-> status_type, msg |-> msg]]

----------------------------------------------------------------------------
(* The handlers' locals (the event argument is kept only where both handlers  *)
(* are followed)                                                               *)

\* The pod-defaults relation before the charm has written on it: nothing in the
\* application's data, nothing in the unit's.
NoPodDefaults == [app |-> <<>>, unit |-> <<>>]

NoLocals ==
    [default_artifact_root |-> <<>>, interfaces |-> <<>>, image_details |-> <<>>,
     mysql |-> <<>>, obj_storage |-> <<>>, secrets |-> <<>>, endpoint |-> <<>>,
     tracking |-> <<>>, event |-> <<>>]

Init ==
    /\ env \in Envs
    /\ status = Unset
    /\ message = ""
    /\ podSpec = <<>>
    /\ ingressData = <<>>
    /\ pc = "idle"
    /\ locals = NoLocals
    /\ checked = <<>>
    /\ effects = <<>>
    /\ error = None
    /\ last = <<>>
    /\ podDefaults = NoPodDefaults

----------------------------------------------------------------------------
(* validate_s3_bucket_name: the regular expression, part by part *)

Digit == {"0","1","2","3","4","5","6","7","8","9"}

LowerAlnum ==
    Digit \cup {"a","b","c","d","e","f","g","h","i","j","k","l","m",
                "n","o","p","q","r","s","t","u","v","w","x","y","z"}

Front(s) == SubSeq(s, 1, Len(s) - 1)

\* The k-th smallest element of a set of numbers.
Nth(S, k) == CHOOSE x \in S : Cardinality({ y \in S : y < x }) = k - 1

\* The pieces of s between its dots.
SplitDots(s) ==
    LET cuts == {0} \cup { i \in 1..Len(s) : s[i] = "." } \cup {Len(s) + 1} IN
    [k \in 1..(Cardinality(cuts) - 1) |-> SubSeq(s, Nth(cuts, k) + 1, Nth(cuts, k + 1) - 1)]

\* Where $ can stand in s: at its end, and before the newline that ends it.  The
\* text up to each such place.
UpToEnd(s) ==
    {s} \cup (IF s # <<>> /\ s[Len(s)] = "\n" THEN {Front(s)} ELSE {})

\* .{3,63}
AnyThreeTo63(s) ==
    /\ Len(s) >= 3
    /\ Len(s) <= 63
    /\ \A i \in 1..Len(s) : s[i] # "\n"

\* (\d+\.)+\d+
DottedNumbers(s) ==
    LET parts == SplitDots(s) IN
    /\ Len(parts) >= 2
    /\ \A i \in 1..Len(parts) :
          /\ parts[i] # <<>>
          /\ \A j \in 1..Len(parts[i]) : parts[i][j] \in Digit

\* [a-z0-9]|[a-z0-9][a-z0-9\-]*[a-z0-9]
Label(t) ==
    /\ t # <<>>
    /\ t[1] \in LowerAlnum
    /\ t[Len(t)] \in LowerAlnum
    /\ \A j \in 1..Len(t) : t[j] \in LowerAlnum \cup {"-"}

\* ((label)\.)*(label)
DottedLabels(s) ==
    LET parts == SplitDots(s) IN \A i \in 1..Len(parts) : Label(parts[i])

\* re.match of the whole expression
BucketNameMatches(name) ==
    /\ \E t \in UpToEnd(name) : AnyThreeTo63(t)
    /\ ~\E t \in UpToEnd(name) : DottedNumbers(t)
    /\ \E t \in UpToEnd(name) : DottedLabels(t)

\* validate_s3_bucket_name(name): the name, or the CheckFailedError raised.
validate_s3_bucket_name(name) ==
    IF BucketNameMatches(name)
    THEN [ok |-> TRUE, value |-> name, raised |-> CheckFailedError("", None)]
    ELSE [ok |-> FALSE, value |-> <<>>,
          raised |-> CheckFailedError(
              "Invalid value for config default_artifact_root '" \o Str(name)
                  \o "' - value must be a valid S3 bucket name",
              "Blocked")]

----------------------------------------------------------------------------
(* Characters, str.lower and base64 *)

\* The printable ASCII characters, from code 32 to code 126 (the grave accent,
\* code 96, cannot be written in a string here and is held by a placeholder).
Ascii ==
    <<" ","!","\"","#","$","%","&","'","(",")","*","+",",","-",".","/",
      "0","1","2","3","4","5","6","7","8","9",":",";","<","=",">","?",
      "@","A","B","C","D","E","F","G","H","I","J","K","L","M","N","O",
      "P","Q","R","S","T","U","V","W","X","Y","Z","[","\\","]","^","_",
      "(96)","a","b","c","d","e","f","g","h","i","j","k","l","m","n","o",
      "p","q","r","s","t","u","v","w","x","y","z","{","|","}","~">>

\* ord(c), for the characters the model uses
Ord(c) == IF c = "\n" THEN 10 ELSE 31 + (CHOOSE i \in 1..Len(Ascii) : Ascii[i] = c)

\* s.encode("utf-8"), for ASCII text
Utf8(s) == [i \in 1..Len(s) |-> Ord(s[i])]

IsUpper(c) == Ord(c) >= 65 /\ Ord(c) <= 90

\* str.lower
Lower(s) == [i \in 1..Len(s) |-> IF IsUpper(s[i]) THEN Ascii[Ord(s[i]) + 32 - 31] ELSE s[i]]

B64Alphabet ==
    <<"A","B","C","D","E","F","G","H","I","J","K","L","M","N","O","P",
      "Q","R","S","T","U","V","W","X","Y","Z","a","b","c","d","e","f",
      "g","h","i","j","k","l","m","n","o","p","q","r","s","t","u","v",
      "w","x","y","z","0","1","2","3","4","5","6","7","8","9","+","/">>

B64Char(n) == B64Alphabet[n + 1]

\* base64.b64encode: three bytes to four characters, "=" padding at the end
RECURSIVE b64encode(_)
b64encode(b) ==
    IF Len(b) = 0 THEN ""
    ELSE IF Len(b) = 1 THEN
        LET n == b[1] * 65536 IN
        B64Char(n \div 262144) \o B64Char((n \div 4096) % 64) \o "=="
    ELSE IF Len(b) = 2 THEN
        LET n == b[1] * 65536 + b[2] * 256 IN
        B64Char(n \div 262144) \o B64Char((n \div 4096) % 64)
            \o B64Char((n \div 64) % 64) \o "="
    ELSE
        LET n == b[1] * 65536 + b[2] * 256 + b[3] IN
        B64Char(n \div 262144) \o B64Char((n \div 4096) % 64)
            \o B64Char((n \div 64) % 64) \o B64Char(n % 64)
            \o b64encode(SubSeq(b, 4, Len(b)))

\* _b64_encode_dict(d): every value encoded
b64_encode_dict(d) == [k \in DOMAIN d |-> b64encode(Utf8(d[k]))]

\* The literal pieces of the f-strings.
T_http == <<"h","t","t","p",":","/","/">>
T_dot == <<".">>
T_colon == <<":">>
T_slash == <<"/">>
T_at == <<"@">>
T_mysql == <<"m","y","s","q","l","+","p","y","m","y","s","q","l",":","/","/","r","o","o","t",":">>
T_s3 == <<"s","3">>
T_minio == <<"m","i","n","i","o">>
T_false == <<"f","a","l","s","e">>

\* The keys a dict builder reads that d lacks (a KeyError when not empty).
Missing(d, keys) == keys \ DOMAIN d

MinioKeys == {"service", "namespace", "port", "access-key", "secret-key", "secure"}
SeldonKeys == {"access-key", "secret-key", "service", "port"}
DbKeys == {"root_password", "host", "port", "database"}

\* _minio_credentials_dict(obj_storage)
minio_credentials_dict(obj_storage) ==
    b64_encode_dict(
        [k \in {"AWS_ENDPOINT_URL", "AWS_ACCESS_KEY_ID", "AWS_SECRET_ACCESS_KEY", "USE_SSL"} |->
            CASE k = "AWS_ENDPOINT_URL" ->
                    T_http \o obj_storage["service"] \o T_dot \o obj_storage["namespace"]
                        \o T_colon \o obj_storage["port"]
              [] k = "AWS_ACCESS_KEY_ID" -> obj_storage["access-key"]
              [] k = "AWS_SECRET_ACCESS_KEY" -> obj_storage["secret-key"]
              [] k = "USE_SSL" -> Lower(obj_storage["secure"])])

\* _seldon_credentials_dict(obj_storage)
seldon_credentials_dict(obj_storage) ==
    b64_encode_dict(
        [k \in {"RCLONE_CONFIG_S3_TYPE", "RCLONE_CONFIG_S3_PROVIDER",
                "RCLONE_CONFIG_S3_ACCESS_KEY_ID", "RCLONE_CONFIG_S3_SECRET_ACCESS_KEY",
                "RCLONE_CONFIG_S3_ENDPOINT", "RCLONE_CONFIG_S3_ENV_AUTH"} |->
            CASE k = "RCLONE_CONFIG_S3_TYPE" -> T_s3
              [] k = "RCLONE_CONFIG_S3_PROVIDER" -> T_minio
              [] k = "RCLONE_CONFIG_S3_ACCESS_KEY_ID" -> obj_storage["access-key"]
              [] k = "RCLONE_CONFIG_S3_SECRET_ACCESS_KEY" -> obj_storage["secret-key"]
              [] k = "RCLONE_CONFIG_S3_ENDPOINT" ->
                    T_http \o obj_storage["service"] \o T_colon \o obj_storage["port"]
              [] k = "RCLONE_CONFIG_S3_ENV_AUTH" -> T_false])

\* db_secret_dict with host and port the wrong way round in the URI.
db_secret_dict_PortHost(mysql) ==
    b64_encode_dict(
        [k \in {"DB_ROOT_PASSWORD", "MLFLOW_TRACKING_URI"} |->
            CASE k = "DB_ROOT_PASSWORD" -> mysql["root_password"]
              [] k = "MLFLOW_TRACKING_URI" ->
                    T_mysql \o mysql["root_password"] \o T_at \o mysql["port"]
                        \o T_colon \o mysql["host"] \o T_slash \o mysql["database"]])

\* _db_secret_dict(mysql)
db_secret_dict(mysql) ==
    b64_encode_dict(
        [k \in {"DB_ROOT_PASSWORD", "MLFLOW_TRACKING_URI"} |->
            CASE k = "DB_ROOT_PASSWORD" -> mysql["root_password"]
              [] k = "MLFLOW_TRACKING_URI" ->
                    T_mysql \o mysql["root_password"] \o T_at \o mysql["host"]
                        \o T_colon \o mysql["port"] \o T_slash \o mysql["database"]])

----------------------------------------------------------------------------
(* Operator.main *)

\* A handler may start when none is running.
Idle == pc \in {"idle", "done", "crashed", "pd_done", "pd_crashed"}

\* The events main observes (lines 46-55).
MainEvents ==
    {"install", "leader_elected", "upgrade_charm", "config_changed",
     "db_relation_changed", "object_storage_relation_changed",
     "ingress_relation_changed"}

\* What the platform may show when the event arrives: what it showed at the last
\* event with the thing the event is about changed.  No event main observes
\* tells of leadership lost, which any event may find.
Changes(event) ==
    { [env EXCEPT !.leader = FALSE] } \cup
    CASE event = "install" -> { env }
      [] event = "leader_elected" -> { [env EXCEPT !.leader = TRUE] }
      [] event = "upgrade_charm" -> { [env EXCEPT !.image = v] : v \in ImageResults }
      [] event = "config_changed" -> { [env EXCEPT !.config = v] : v \in Configs }
      [] event = "db_relation_changed" -> { [env EXCEPT !.db = v] : v \in DbRelationLists }
      [] event = "object_storage_relation_changed" ->
            { [env EXCEPT !.objStorage = v] : v \in ObjStorageStates } \cup
            { [env EXCEPT !.negotiation = v] : v \in Negotiations }
      [] event = "ingress_relation_changed" ->
            { [env EXCEPT !.ingress = v] : v \in BOOLEAN } \cup
            { [env EXCEPT !.negotiation = v] : v \in Negotiations }
      [] event \in {"pod_defaults_relation_joined", "pod_defaults_relation_changed"} ->
            { env } \cup { [env EXCEPT !.negotiation = v] : v \in Negotiations }

\* What a pass that is over has left: the status, the spec it submitted (none
\* when it did not call set_spec), the secrets it built, the error that escaped.
Outcome ==
    [status |-> status,
     submitted |-> IF InSeq("set_spec", effects) THEN podSpec ELSE <<>>,
     secrets |-> locals.secrets,
     error |-> error]

\* A new process runs main, the platform showing e.
Begin(e) ==
    /\ Idle
    /\ env' = e
    /\ last' = IF pc \in {"done", "crashed"} /\ e = env THEN <<Outcome>> ELSE <<>>
    /\ pc' = "check_leader"
    /\ locals' = NoLocals
    /\ checked' = <<>>
    /\ effects' = <<>>
    /\ error' = None
    /\ message' = ""
    /\ UNCHANGED <<status, podSpec, ingressData, podDefaults>>

\* The framework delivers an event main observes.
Dispatch(event) ==
    /\ event \in MainEvents
    /\ \E e \in Changes(event) \cap Envs : Begin(e)

\* An event main observes arrives with nothing changed since the last one.
DispatchUnchanged == Begin(env)

\* except CheckFailedError as check_failed (lines 110-113)
Failed(check_failed) ==
    /\ status' = check_failed.status
    /\ message' = check_failed.msg
    /\ pc' = "done"

\* CheckLeader without the is_leader() test.
CheckLeader_NoTest ==
    /\ pc = "check_leader"
    /\ checked' = Append(checked, "leader")
    /\ pc' = "validate_bucket"
    /\ UNCHANGED <<env, last, podDefaults, status, message, podSpec, ingressData, locals, effects, error>>

\* self._check_leader() (line 106)
CheckLeader ==
    /\ pc = "check_leader"
    /\ checked' = Append(checked, "leader")
    /\ IF ~env.leader
       THEN Failed(CheckFailedError("Waiting for leadership", "Waiting"))
       ELSE pc' = "validate_bucket" /\ UNCHANGED <<status, message>>
    /\ UNCHANGED <<env, last, podDefaults, podSpec, ingressData, locals, effects, error>>

\* validate_s3_bucket_name(self.config["default_artifact_root"]) (line 107)
ValidateBucket ==
    /\ pc = "validate_bucket"
    /\ checked' = Append(checked, "bucket")
    /\ LET r == validate_s3_bucket_name(env.config.default_artifact_root) IN
       IF ~r.ok
       THEN Failed(r.raised) /\ UNCHANGED locals
       ELSE /\ locals' = [locals EXCEPT !.default_artifact_root = r.value]
            /\ pc' = "get_interfaces"
            /\ UNCHANGED <<status, message>>
    /\ UNCHANGED <<env, last, podDefaults, podSpec, ingressData, effects, error>>

\* get_interfaces with Waiting for both of the library's errors.
get_interfaces_AllWaiting ==
    IF env.negotiation.exc # None
    THEN [ok |-> FALSE, raised |-> CheckFailedError(env.negotiation.text, "Waiting")]
    ELSE [ok |-> TRUE, raised |-> CheckFailedError("", None)]

\* self._get_interfaces() (lines 253-260): the interfaces, or the error raised
get_interfaces ==
    IF env.negotiation.exc = "NoVersionsListed"
    THEN [ok |-> FALSE, raised |-> CheckFailedError(env.negotiation.text, "Waiting")]
    ELSE IF env.negotiation.exc = "NoCompatibleVersions"
    THEN [ok |-> FALSE, raised |-> CheckFailedError(env.negotiation.text, "Blocked")]
    ELSE [ok |-> TRUE, raised |-> CheckFailedError("", None)]

\* What get_interfaces returns: one entry per endpoint.
Interfaces == [ingress |-> env.ingress, objStorage |-> env.objStorage]

\* interfaces = self._get_interfaces() (line 108)
GetInterfaces ==
    /\ pc = "get_interfaces"
    /\ checked' = Append(checked, "interfaces")
    /\ IF ~get_interfaces.ok
       THEN Failed(get_interfaces.raised) /\ UNCHANGED locals
       ELSE /\ locals' = [locals EXCEPT !.interfaces = <<Interfaces>>]
            /\ pc' = "check_image"
            /\ UNCHANGED <<status, message>>
    /\ UNCHANGED <<env, last, podDefaults, podSpec, ingressData, effects, error>>

\* check_image_details that swallows the fetch error.
check_image_details_Swallow == [ok |-> TRUE, raised |-> CheckFailedError("", None)]

\* check_image_details that reports every fetch error as Blocked.
check_image_details_Blocked ==
    IF env.image.exc = "OCIImageResourceError"
    THEN [ok |-> FALSE, raised |-> CheckFailedError(env.image.status_message, "Blocked")]
    ELSE [ok |-> TRUE, raised |-> CheckFailedError("", None)]

\* self._check_image_details() (lines 262-267): the details, or the error raised
check_image_details ==
    IF env.image.exc = "OCIImageResourceError"
    THEN [ok |-> FALSE,
          raised |-> CheckFailedError(env.image.status_message, env.image.status_type)]
    ELSE [ok |-> TRUE, raised |-> CheckFailedError("", None)]

\* image_details = self._check_image_details() (line 109)
CheckImageDetails ==
    /\ pc = "check_image"
    /\ checked' = Append(checked, "image")
    /\ IF ~check_image_details.ok
       THEN Failed(check_image_details.raised) /\ UNCHANGED locals
       ELSE /\ locals' = [locals EXCEPT !.image_details = <<ImageDetails>>]
            /\ pc' = "configure_mesh"
            /\ UNCHANGED <<status, message>>
    /\ UNCHANGED <<env, last, podDefaults, podSpec, ingressData, effects, error>>

\* ConfigureMesh without the test of interfaces["ingress"].
ConfigureMesh_Always ==
    /\ pc = "configure_mesh"
    /\ ingressData' =
          << [prefix |-> "/mlflow/", rewrite |-> "/", service |-> AppName,
              port |-> env.config.mlflow_port] >>
    /\ effects' = Append(effects, "send_data")
    /\ pc' = "db_arity"
    /\ UNCHANGED <<env, last, podDefaults, status, message, podSpec, locals, checked, error>>

\* self._configure_mesh(interfaces) (lines 115, 237-246)
ConfigureMesh ==
    /\ pc = "configure_mesh"
    /\ IF locals.interfaces[1].ingress
       THEN /\ ingressData' =
                 << [prefix |-> "/mlflow/", rewrite |-> "/", service |-> AppName,
                     port |-> env.config.mlflow_port] >>
            /\ effects' = Append(effects, "send_data")
       ELSE UNCHANGED <<ingressData, effects>>
    /\ pc' = "db_arity"
    /\ UNCHANGED <<env, last, podDefaults, status, message, podSpec, locals, checked, error>>

\* CheckDbArity without the return of line 122.
CheckDbArity_NoReturn ==
    /\ pc = "db_arity"
    /\ checked' = Append(checked, "db_arity")
    /\ IF Len(env.db) > 1
       THEN status' = BlockedStatus("Too many mysql relations")
       ELSE UNCHANGED status
    /\ pc' = "db_data"
    /\ UNCHANGED <<env, last, podDefaults, message, podSpec, ingressData, locals, effects, error>>

\* CheckDbArity with len(mysql) >= 1 for len(mysql) > 1.
CheckDbArity_OffByOne ==
    /\ pc = "db_arity"
    /\ checked' = Append(checked, "db_arity")
    /\ IF Len(env.db) >= 1
       THEN /\ status' = BlockedStatus("Too many mysql relations")
            /\ pc' = "done"
       ELSE /\ pc' = "db_data"
            /\ UNCHANGED status
    /\ UNCHANGED <<env, last, podDefaults, message, podSpec, ingressData, locals, effects, error>>

\* mysql = self.model.relations["db"]; if len(mysql) > 1 (lines 119-122)
CheckDbArity ==
    /\ pc = "db_arity"
    /\ checked' = Append(checked, "db_arity")
    /\ IF Len(env.db) > 1
       THEN /\ status' = BlockedStatus("Too many mysql relations")
            /\ pc' = "done"
       ELSE /\ pc' = "db_data"
            /\ UNCHANGED status
    /\ UNCHANGED <<env, last, podDefaults, message, podSpec, ingressData, locals, effects, error>>

\* The data of the units of mysql[0], one of which list(mysql.units)[0] picks
\* (mysql.units is a set): none when mysql[0] raises IndexError.
DbUnitData == IF Len(env.db) = 0 THEN {} ELSE env.db[1]

\* The try block of lines 124-131: IndexError without a relation or without a
\* unit, KeyError when the unit picked has no "database" key.
CheckDbData ==
    /\ pc = "db_data"
    /\ checked' = Append(checked, "db_data")
    /\ IF DbUnitData = {}
       THEN /\ status' = WaitingStatus("Waiting for mysql relation data")
            /\ pc' = "done"
            /\ UNCHANGED locals
       ELSE \E data \in DbUnitData :
               IF ~HasKey(data, "database")
               THEN /\ status' = WaitingStatus("Waiting for mysql relation data")
                    /\ pc' = "done"
                    /\ UNCHANGED locals
               ELSE /\ locals' = [locals EXCEPT !.mysql = <<data>>]
                    /\ pc' = "obj_storage"
                    /\ UNCHANGED status
    /\ UNCHANGED <<env, last, podDefaults, message, podSpec, ingressData, effects, error>>

\* (obj_storage := interfaces["object-storage"]) and obj_storage.get_data()
ObjectStorageReady(interfaces) ==
    interfaces.objStorage.present /\ interfaces.objStorage.data # <<>>

\* CheckObjectStorage that withdraws the pod spec when the data is not there.
CheckObjectStorage_DropSpec ==
    /\ pc = "obj_storage"
    /\ checked' = Append(checked, "obj_storage")
    /\ IF ~ObjectStorageReady(locals.interfaces[1])
       THEN /\ status' = WaitingStatus("Waiting for object-storage relation data")
            /\ podSpec' = <<>>
            /\ pc' = "done"
       ELSE /\ pc' = "maintenance"
            /\ UNCHANGED <<status, podSpec>>
    /\ UNCHANGED <<env, last, podDefaults, message, ingressData, locals, effects, error>>

\* lines 133-135
CheckObjectStorage ==
    /\ pc = "obj_storage"
    /\ checked' = Append(checked, "obj_storage")
    /\ IF ~ObjectStorageReady(locals.interfaces[1])
       THEN /\ status' = WaitingStatus("Waiting for object-storage relation data")
            /\ pc' = "done"
       ELSE /\ pc' = "maintenance"
            /\ UNCHANGED status
    /\ UNCHANGED <<env, last, podDefaults, message, podSpec, ingressData, locals, effects, error>>

\* SetMaintenance without the status write.
SetMaintenance_Skip ==
    /\ pc = "maintenance"
    /\ pc' = "secrets"
    /\ UNCHANGED <<env, last, podDefaults, status, message, podSpec, ingressData, locals,
                   checked, effects, error>>

\* self.model.unit.status = MaintenanceStatus("Setting pod spec") (line 137)
SetMaintenance ==
    /\ pc = "maintenance"
    /\ status' = MaintenanceStatus("Setting pod spec")
    /\ pc' = "secrets"
    /\ UNCHANGED <<env, last, podDefaults, message, podSpec, ingressData, locals, checked, effects, error>>

\* The secrets list of lines 140-150.
Secrets(obj_storage, mysql) ==
    << [name |-> AppName \o "-minio-secret",
        data |-> minio_credentials_dict(obj_storage)],
       [name |-> AppName \o "-seldon-init-container-s3-credentials",
        data |-> seldon_credentials_dict(obj_storage)],
       [name |-> AppName \o "-db-secret", data |-> db_secret_dict(mysql)] >>

\* lines 139-150: the first provider's record, then the three secrets; a key the
\* record lacks is a KeyError nothing catches.
BuildSecrets ==
    /\ pc = "secrets"
    /\ LET obj_storage == Head(locals.interfaces[1].objStorage.data)
           mysql == locals.mysql[1]
       IN IF Missing(obj_storage, MinioKeys \cup SeldonKeys) # {}
             \/ Missing(mysql, DbKeys) # {}
          THEN /\ locals' = [locals EXCEPT !.obj_storage = <<obj_storage>>]
               /\ error' = "KeyError"
               /\ pc' = "crashed"
          ELSE /\ locals' = [locals EXCEPT !.obj_storage = <<obj_storage>>,
                                           !.secrets = Secrets(obj_storage, mysql)]
               /\ error' = error
               /\ pc' = "set_spec"
    /\ UNCHANGED <<env, last, podDefaults, status, message, podSpec, ingressData, checked, effects>>

\* The pod spec of lines 153-233.
PodSpec(config, default_artifact_root, image_details, obj_storage, secrets) ==
    [version |-> 3,
     containers |-> <<
        [name |-> "mlflow",
         imageDetails |-> image_details,
         ports |-> << [name |-> "http", containerPort |-> config.mlflow_port] >>,
         args |-> << "--host", "0.0.0.0", "--backend-store-uri", "$(MLFLOW_TRACKING_URI)",
                     "--default-artifact-root",
                     "s3://" \o Str(default_artifact_root) \o "/" >>,
         envConfig |->
            ("db-secret" :> [secret |-> [name |-> AppName \o "-db-secret"]]) @@
            ("aws-secret" :> [secret |-> [name |-> AppName \o "-minio-secret"]]) @@
            ("AWS_DEFAULT_REGION" :> "us-east-1") @@
            ("MLFLOW_S3_ENDPOINT_URL" :>
                Str(T_http \o obj_storage["service"] \o T_dot \o obj_storage["namespace"]
                        \o T_colon \o obj_storage["port"]))] >>,
     kubernetesResources |->
        [secrets |-> secrets,
         services |-> <<
            [name |-> "mlflow-external",
             spec |-> [type |-> "NodePort",
                       selector |-> ("app.kubernetes.io/name" :> "mlflow"),
                       ports |-> << [protocol |-> "TCP",
                                     port |-> config.mlflow_port,
                                     targetPort |-> config.mlflow_port,
                                     nodePort |-> config.mlflow_nodeport] >>]],
            [name |-> "kubeflow-external",
             spec |-> [type |-> "NodePort",
                       selector |-> ("app.kubernetes.io/name" :> "istio-ingressgateway"),
                       ports |-> << [protocol |-> "TCP",
                                     port |-> config.kubeflow_port,
                                     targetPort |-> config.kubeflow_port,
                                     nodePort |-> config.kubeflow_nodeport] >>]],
            [name |-> "kubeflow-external-lb",
             spec |-> [type |-> "LoadBalancer",
                       selector |-> ("app.kubernetes.io/name" :> "istio-ingressgateway"),
                       ports |-> << [protocol |-> "TCP",
                                     port |-> config.kubeflow_port,
                                     targetPort |-> config.kubeflow_port] >>]] >>]]

\* self.model.pod.set_spec(...) (lines 152-234)
SetSpec ==
    /\ pc = "set_spec"
    /\ podSpec' = << PodSpec(env.config, locals.default_artifact_root,
                             locals.image_details[1], locals.obj_storage[1],
                             locals.secrets) >>
    /\ effects' = Append(effects, "set_spec")
    /\ pc' = "set_active"
    /\ UNCHANGED <<env, last, podDefaults, status, message, ingressData, locals, checked, error>>

\* self.model.unit.status = ActiveStatus() (line 235)
SetActive ==
    /\ pc = "set_active"
    /\ status' = ActiveStatus
    /\ pc' = "done"
    /\ UNCHANGED <<env, last, podDefaults, message, podSpec, ingressData, locals, checked, effects, error>>

----------------------------------------------------------------------------
(* Operator._on_pod_defaults_relation_changed *)

\* The events the pod-defaults handler observes (lines 58-62).
PodDefaultsEvents == {"pod_defaults_relation_joined", "pod_defaults_relation_changed"}

\* self.model.name
ModelName == "kubeflow"

\* The lines of files/mlflow_requirements.txt.
RequirementsFile == <<"mlflow", "boto3">>

\* str(requirements): the repr of a list of strings.
RECURSIVE ReprItems(_)
ReprItems(l) ==
    IF l = <<>> THEN ""
    ELSE "'" \o Head(l) \o "'" \o (IF Len(l) > 1 THEN ", " ELSE "") \o ReprItems(Tail(l))

ReprList(l) == "[" \o ReprItems(l) \o "]"

\* json.dumps of the pod defaults (lines 78-89).
PodDefaultsJson(obj_storage, endpoint, tracking) ==
    "{\"minio\": {\"env\": {\"AWS_ACCESS_KEY_ID\": \"" \o Str(obj_storage["access-key"])
        \o "\", \"AWS_SECRET_ACCESS_KEY\": \"" \o Str(obj_storage["secret-key"])
        \o "\", \"MLFLOW_S3_ENDPOINT_URL\": \"" \o endpoint
        \o "\", \"MLFLOW_TRACKING_URI\": \"" \o tracking \o "\"}}}"

\* What the platform shows while both handlers are followed: the database and
\* the image, which the pod-defaults handler does not look at, are those of the
\* working deployment, and the ingress relation is present.
HandlerEnvs ==
    { e \in AllEnvs : /\ Cardinality(Departures(e)) <= MaxDepartures
                      /\ e.db = Working.db
                      /\ e.image = Working.image
                      /\ e.ingress }

\* Every event the charm observes.
ObservedEvents == MainEvents \cup PodDefaultsEvents

\* Observer with main registered for every event.
Observer_AllMain(event) == "main"

\* The handler self.framework.observe registers for an event (lines 46-62).
Observer(event) ==
    IF event \in PodDefaultsEvents THEN "_on_pod_defaults_relation_changed" ELSE "main"

\* The framework delivers an event the charm observes: a new process runs the
\* handler registered for it, with the event as its argument.
Emit(event) ==
    /\ Idle
    /\ event \in ObservedEvents
    /\ env' \in Changes(event) \cap HandlerEnvs
    /\ pc' = IF Observer(event) = "main" THEN "check_leader" ELSE "pd_get_interfaces"
    /\ locals' = [NoLocals EXCEPT !.event = <<event>>]
    /\ checked' = <<>>
    /\ effects' = <<>>
    /\ error' = None
    /\ message' = ""
    /\ last' = IF env' # env THEN <<>>
               ELSE IF pc \in {"done", "crashed"} THEN <<Outcome>>
               ELSE IF pc \in {"pd_done", "pd_crashed"} THEN last
               ELSE <<>>
    /\ UNCHANGED <<status, podSpec, ingressData, podDefaults>>

\* lines 65-69: interfaces = self._get_interfaces(), the status set and the
\* handler over when it raises
PdGetInterfaces ==
    /\ pc = "pd_get_interfaces"
    /\ checked' = Append(checked, "interfaces")
    /\ IF ~get_interfaces.ok
       THEN /\ status' = get_interfaces.raised.status
            /\ pc' = "pd_done"
            /\ UNCHANGED locals
       ELSE /\ locals' = [locals EXCEPT !.interfaces = <<Interfaces>>]
            /\ pc' = "pd_publish"
            /\ UNCHANGED status
    /\ UNCHANGED <<env, last, podDefaults, message, podSpec, ingressData, effects, error>>

\* The error lines 71-89 raise, None when they raise none: the object-storage
\* interface is None without the relation, get_data() may be empty, the first
\* record may lack a key, and only the leader may write application data.
PodDefaultsError(interfaces) ==
    IF ~interfaces.objStorage.present THEN "AttributeError"
    ELSE IF interfaces.objStorage.data = <<>> THEN "IndexError"
    ELSE IF Missing(Head(interfaces.objStorage.data),
                    {"service", "namespace", "port", "access-key", "secret-key"}) # {}
         THEN "KeyError"
    ELSE IF ~env.leader THEN "RelationDataError"
    ELSE None

\* lines 71-89: the first object-storage record, the endpoint and tracking URLs,
\* and the pod defaults written to the application's relation data
PdPublish ==
    /\ pc = "pd_publish"
    /\ LET interfaces == locals.interfaces[1]
           raised == PodDefaultsError(interfaces)
       IN IF raised # None
          THEN /\ error' = raised
               /\ pc' = "pd_crashed"
               /\ UNCHANGED <<locals, podDefaults, effects>>
          ELSE LET obj_storage == Head(interfaces.objStorage.data)
                   endpoint == "http://" \o Str(obj_storage["service"]) \o "."
                                  \o Str(obj_storage["namespace"]) \o ":"
                                  \o Str(obj_storage["port"])
                   tracking == "http://" \o AppName \o "." \o ModelName
                                  \o ".svc.cluster.local" \o ":"
                                  \o ToString(env.config.mlflow_port)
               IN /\ locals' = [locals EXCEPT !.obj_storage = <<obj_storage>>,
                                               !.endpoint = <<endpoint>>,
                                               !.tracking = <<tracking>>]
                  /\ podDefaults' =
                        [podDefaults EXCEPT
                            !.app = <<PodDefaultsJson(obj_storage, endpoint, tracking)>>]
                  /\ effects' = Append(effects, "pod-defaults")
                  /\ error' = error
                  /\ pc' = "pd_requirements"
    /\ UNCHANGED <<env, last, status, message, podSpec, ingressData, checked>>

\* PdRequirements that ends by setting the status Active.
PdRequirements_SetsActive ==
    /\ pc = "pd_requirements"
    /\ \E requirements \in {RequirementsFile, <<>>} :
          podDefaults' = [podDefaults EXCEPT !.unit = <<ReprList(requirements)>>]
    /\ effects' = Append(effects, "requirements")
    /\ status' = ActiveStatus
    /\ pc' = "pd_done"
    /\ UNCHANGED <<env, last, message, podSpec, ingressData, locals, checked, error>>

\* lines 91-98: the requirements file read (an IOError leaves the list empty) and
\* written to the unit's relation data
PdRequirements ==
    /\ pc = "pd_requirements"
    /\ \E requirements \in {RequirementsFile, <<>>} :
          podDefaults' = [podDefaults EXCEPT !.unit = <<ReprList(requirements)>>]
    /\ effects' = Append(effects, "requirements")
    /\ pc' = "pd_done"
    /\ UNCHANGED <<env, last, status, message, podSpec, ingressData, locals, checked, error>>

----------------------------------------------------------------------------

Next ==
    \/ \E event \in MainEvents : Dispatch(event)
    \/ CheckLeader
    \/ ValidateBucket
    \/ GetInterfaces
    \/ CheckImageDetails
    \/ ConfigureMesh
    \/ CheckDbArity
    \/ CheckDbData
    \/ CheckObjectStorage
    \/ SetMaintenance
    \/ BuildSecrets
    \/ SetSpec
    \/ SetActive

\* The passes of main, event after event.
Spec == Init /\ [][Next]_vars

----------------------------------------------------------------------------
(* Both handlers, event after event.  main reads nothing the pod-defaults     *)
(* handler writes, and the handler nothing main writes.                       *)

InitHandlers ==
    /\ env \in HandlerEnvs
    /\ status = Unset
    /\ message = ""
    /\ podSpec = <<>>
    /\ ingressData = <<>>
    /\ pc = "idle"
    /\ locals = NoLocals
    /\ checked = <<>>
    /\ effects = <<>>
    /\ error = None
    /\ last = <<>>
    /\ podDefaults = NoPodDefaults

NextHandlers ==
    \/ \E event \in ObservedEvents : Emit(event)
    \/ PdGetInterfaces
    \/ PdPublish
    \/ PdRequirements
    \/ CheckLeader
    \/ ValidateBucket
    \/ GetInterfaces
    \/ CheckImageDetails
    \/ ConfigureMesh
    \/ CheckDbArity
    \/ CheckDbData
    \/ CheckObjectStorage
    \/ SetMaintenance
    \/ BuildSecrets
    \/ SetSpec
    \/ SetActive

SpecHandlers == InitHandlers /\ [][NextHandlers]_vars

----------------------------------------------------------------------------
(* Passes of a leader over bucket names: the working deployment, the config  *)
(* value default_artifact_root any of the names below                        *)

\* longest name made of every combination of NameAlphabet
MaxNameLen == 4

\* a lowercase letter, a digit, the hyphen, the dot, an uppercase letter, a
\* character no bucket name has, the newline
NameAlphabet == {"a", "1", "-", ".", "A", "_", "\n"}

ShortNames == UNION { [1..n -> NameAlphabet] : n \in 0..MaxNameLen }

Repeat(c, n) == [i \in 1..n |-> c]

\* Names at the length limit, and dotted quads.
LongNames ==
    { Repeat("a", 62), Repeat("a", 63), Repeat("a", 64), Repeat("a", 65),
      Repeat("a", 62) \o <<"\n">>, Repeat("a", 63) \o <<"\n">>,
      Repeat("a", 64) \o <<"\n">>,
      Repeat("a", 30) \o <<".">> \o Repeat("1", 32),
      Repeat("a", 30) \o <<".">> \o Repeat("1", 33),
      <<"1",".","1",".","1",".","1">>, <<"1","0",".","0",".","0",".","1">>,
      <<"1",".","1",".","1",".","1","\n">>, <<"1",".","1",".","1",".","a">>,
      <<"m","y","-","b","u","c","k","e","t",".","v","1">> }

TestNames == ShortNames \cup LongNames

NameEnvs ==
    { [Working EXCEPT !.config = [@ EXCEPT !.default_artifact_root = n]] : n \in TestNames }

InitNames ==
    /\ env \in NameEnvs
    /\ status = Unset
    /\ message = ""
    /\ podSpec = <<>>
    /\ ingressData = <<>>
    /\ pc = "idle"
    /\ locals = NoLocals
    /\ checked = <<>>
    /\ effects = <<>>
    /\ error = None
    /\ last = <<>>
    /\ podDefaults = NoPodDefaults

NextNames ==
    \/ DispatchUnchanged
    \/ CheckLeader
    \/ ValidateBucket
    \/ GetInterfaces
    \/ CheckImageDetails
    \/ ConfigureMesh
    \/ CheckDbArity
    \/ CheckDbData
    \/ CheckObjectStorage
    \/ SetMaintenance
    \/ BuildSecrets
    \/ SetSpec
    \/ SetActive

SpecNames == InitNames /\ [][NextNames]_vars

----------------------------------------------------------------------------
(* Vocabulary of the properties *)

\* The current pass has called set_spec / send_data.
Submitted == InSeq("set_spec", effects)
Published == InSeq("send_data", effects)

\* A pass of main is running or over (no handler has run since).
InPass == pc \notin {"idle", "pd_get_interfaces", "pd_publish", "pd_requirements",
                     "pd_done", "pd_crashed"}

\* The current pass is over: it returned, or an error escaped it.
PassEnded == pc \in {"done", "crashed"}
PassReturned == pc = "done"

\* The preconditions of a pass, read off what the platform shows.
LeaderOk == env.leader
BucketOk == BucketNameMatches(env.config.default_artifact_root)
NegotiationOk == env.negotiation.exc = None
ImageOk == env.image.exc = None
EarlyChecksOk == LeaderOk /\ BucketOk /\ NegotiationOk /\ ImageOk
DbArityOk == Len(env.db) <= 1
\* every unit of the one relation has published the key main looks for
DbDatabaseKeyOk ==
    Len(env.db) = 1 /\ env.db[1] # {} /\ \A d \in env.db[1] : HasKey(d, "database")
\* every unit of the one relation has published all four connection fields
DbCompleteOk ==
    Len(env.db) = 1 /\ env.db[1] # {} /\ \A d \in env.db[1] : Missing(d, DbKeys) = {}
\* no unit of the one relation has published all four connection fields
DbIncomplete ==
    Len(env.db) = 1 /\ \A d \in env.db[1] : Missing(d, DbKeys) # {}
ObjDataOk == env.objStorage.present /\ env.objStorage.data # <<>>
ObjCompleteOk ==
    /\ ObjDataOk
    /\ \A i \in 1..Len(env.objStorage.data) : Missing(env.objStorage.data[i], MinioKeys) = {}

----------------------------------------------------------------------------
(* C1 *)

\* C1: a pass on a unit that is not the leader, whatever the configuration, the
\* relations and the image result are, goes no further than the leadership check:
\* it ends with status Waiting and calls neither set_spec nor send_data.
C1_NonLeaderOnlyWaits ==
    (pc # "idle" /\ ~LeaderOk) =>
        /\ pc \in {"check_leader", "done"}
        /\ effects = <<>>
        /\ pc = "done" => status.kind = "Waiting" /\ error = None

\* A pass has ended on a non-leader whose deployment is otherwise complete, with
\* the ingress relation present.
C1_Witness ==
    /\ pc = "done"
    /\ ~LeaderOk /\ BucketOk /\ NegotiationOk /\ ImageOk
    /\ DbCompleteOk /\ ObjCompleteOk /\ env.ingress
    /\ status = WaitingStatus("Waiting for leadership")

----------------------------------------------------------------------------
(* C2 *)

\* C2 as claimed: in any pass the ingress data is published only when the
\* leadership, bucket-name, negotiation, image, database-arity, database-data and
\* object-storage checks all succeed in that pass.
C2_PublishedAfterAllSevenChecks ==
    Published => EarlyChecksOk /\ DbArityOk /\ DbDatabaseKeyOk /\ ObjDataOk

\* C2, amended: the ingress data is published only when the leadership,
\* bucket-name, negotiation and image checks all succeed in that pass (so a pass
\* that ends Waiting or Blocked on one of those four has published nothing), and
\* it is published before the database and object-storage checks: once a pass
\* with the ingress relation present is past _configure_mesh, whatever the
\* database and object-storage checks then find, the data is out.
C2_PublishedAfterFourChecks ==
    /\ Published => EarlyChecksOk /\ env.ingress
    /\ (pc \in {"db_arity", "db_data", "obj_storage"} /\ env.ingress) => Published
    /\ (PassEnded /\ EarlyChecksOk /\ env.ingress) => Published

\* A pass with the ingress relation has ended Blocked on the database-arity check
\* after publishing the ingress data.
C2_Witness ==
    /\ pc = "done"
    /\ status = BlockedStatus("Too many mysql relations")
    /\ Published
    /\ ingressData # <<>>

----------------------------------------------------------------------------
(* C3 *)

\* C3 as claimed: no error escapes main, and every pass that has ended has either
\* set a Waiting or Blocked status with a message, or submitted the pod spec and
\* set Active.
C3_NoErrorEscapesMain ==
    /\ error = None
    /\ PassEnded =>
          \/ status.kind \in {"Waiting", "Blocked"} /\ status.msg # "" /\ ~Submitted
          \/ status = ActiveStatus /\ Submitted

----------------------------------------------------------------------------
(* C4 *)

\* C4 as claimed: whenever the charm has written the unit status, in the middle of
\* a pass and between passes, it is Waiting, Blocked or Active.
C4_StatusIsWaitingBlockedOrActive ==
    status # Unset => status.kind \in {"Waiting", "Blocked", "Active"}

\* C4, amended: whenever the charm has written the unit status it is Waiting,
\* Blocked, Active or Maintenance("Setting pod spec"); a pass that returns leaves
\* Waiting, Blocked or Active, and Maintenance is what a pass shows from the start
\* of pod spec assembly until it sets Active, and what it leaves behind when an
\* error escapes it there.
C4_StatusKinds ==
    /\ status # Unset =>
          \/ status.kind \in {"Waiting", "Blocked", "Active"}
          \/ status = MaintenanceStatus("Setting pod spec")
    /\ pc = "done" => status.kind \in {"Waiting", "Blocked", "Active"}
    /\ pc \in {"secrets", "set_spec", "set_active", "crashed"} =>
          status = MaintenanceStatus("Setting pod spec")

\* A pass is in the middle of pod spec assembly, the status Maintenance.
C4_Witness ==
    /\ pc = "set_spec"
    /\ status.kind = "Maintenance"

----------------------------------------------------------------------------
(* C5 *)

\* The checks of a pass in the order claimed.
StepOrder ==
    <<"leader", "bucket", "interfaces", "image", "db_arity", "db_data", "obj_storage">>

\* What the platform shows makes check i fail / succeed.  (The database-data
\* check depends on the unit picked when the units of the relation differ, and
\* then neither is certain.)
StepFails(i) ==
    CASE i = 1 -> ~LeaderOk
      [] i = 2 -> ~BucketOk
      [] i = 3 -> ~NegotiationOk
      [] i = 4 -> ~ImageOk
      [] i = 5 -> ~DbArityOk
      [] i = 6 -> Len(env.db) = 0 \/ \A d \in env.db[1] : ~HasKey(d, "database")
      [] i = 7 -> ~ObjDataOk

StepSucceeds(i) ==
    CASE i = 6 -> Len(env.db) > 0 /\ env.db[1] # {}
                    /\ \A d \in env.db[1] : HasKey(d, "database")
      [] OTHER -> ~StepFails(i)

\* The status a pass reports when check i fails.
StepStatus(i) ==
    CASE i = 1 -> WaitingStatus("Waiting for leadership")
      [] i = 2 -> BlockedStatus("Invalid value for config default_artifact_root '"
                        \o Str(env.config.default_artifact_root)
                        \o "' - value must be a valid S3 bucket name")
      [] i = 3 -> [kind |-> IF env.negotiation.exc = "NoVersionsListed"
                            THEN "Waiting" ELSE "Blocked",
                   msg |-> env.negotiation.text]
      [] i = 4 -> [kind |-> env.image.status_type, msg |-> env.image.status_message]
      [] i = 5 -> BlockedStatus("Too many mysql relations")
      [] i = 6 -> WaitingStatus("Waiting for mysql relation data")
      [] i = 7 -> WaitingStatus("Waiting for object-storage relation data")

\* The current pass has returned with a failure status.
PassFailed == pc = "done" /\ status.kind \in {"Waiting", "Blocked"}

\* The number of checks the current pass has made and passed.
ChecksPassed == IF PassFailed THEN Len(checked) - 1 ELSE Len(checked)

C5_Order ==
    /\ Len(checked) <= Len(StepOrder)
    /\ checked = SubSeq(StepOrder, 1, Len(checked))
    /\ pc # "idle" => \A i \in 1..ChecksPassed : ~StepFails(i)
    /\ PassFailed =>
          /\ ~StepSucceeds(Len(checked))
          /\ status = StepStatus(Len(checked))
          /\ ~Submitted
    /\ (PassEnded /\ ~PassFailed) => \A i \in 1..Len(StepOrder) : ~StepFails(i)

\* Once a pass has failed, the next thing to happen is the next event.
C5_NothingAfterFailure ==
    PassFailed => /\ pc' = "check_leader"
                  /\ UNCHANGED <<status, podSpec, ingressData>>

\* C5: the checks are made in the order leadership, bucket name, negotiation,
\* image, database arity, database data, object storage; a pass that fails
\* reports the status of the first check that fails, every check before it having
\* succeeded and no check after it having been made; and after the failure the
\* pass does nothing more (no status write, no set_spec, no send_data).
C5_EarliestFailureDecides == [](C5_Order) /\ [][C5_NothingAfterFailure]_vars

\* A pass has ended Blocked on the database-arity check while object storage has
\* no data either: two preconditions fail, the earlier one is reported.
C5_Witness ==
    /\ pc = "done"
    /\ StepFails(5) /\ StepFails(7)
    /\ status = BlockedStatus("Too many mysql relations")
    /\ checked = SubSeq(StepOrder, 1, 5)

----------------------------------------------------------------------------
(* C6 *)

\* C6: when the leadership, bucket, negotiation and image checks pass, a pass
\* with no database relation ends Waiting, a pass with two or more ends Blocked,
\* neither submitting a pod spec nor going on to the object-storage check, and a
\* pass with exactly one relation whose units have published complete records
\* goes on to the object-storage check.
C6_DatabaseArity ==
    EarlyChecksOk =>
        /\ Len(env.db) # 1 =>
              /\ pc \notin {"obj_storage", "maintenance", "secrets", "set_spec",
                            "set_active", "crashed"}
              /\ ~Submitted
        /\ (PassEnded /\ Len(env.db) = 0) =>
              status = WaitingStatus("Waiting for mysql relation data")
        /\ (PassEnded /\ Len(env.db) >= 2) =>
              status = BlockedStatus("Too many mysql relations")
        /\ (PassEnded /\ DbCompleteOk) => InSeq("obj_storage", checked)

\* A pass has ended Waiting for want of a database relation, all else in place.
C6_Witness ==
    /\ pc = "done"
    /\ EarlyChecksOk /\ ObjCompleteOk
    /\ Len(env.db) = 0
    /\ status.kind = "Waiting"
    /\ checked = SubSeq(StepOrder, 1, 6)

----------------------------------------------------------------------------
(* C7 *)

\* C7 as claimed: with exactly one database relation and the earlier checks
\* passing, when no unit of the relation has published all of root_password,
\* host, port and database (or the relation has no unit), the pass ends Waiting,
\* submits no pod spec and raises no error.
C7_IncompleteDbRecordWaits ==
    (PassEnded /\ EarlyChecksOk /\ DbIncomplete) =>
        /\ pc = "done"
        /\ status.kind = "Waiting"
        /\ ~Submitted
        /\ error = None

----------------------------------------------------------------------------
(* C8 *)

\* C8 as claimed: in a pass that has come to the object-storage check (every
\* earlier check of the pass having passed), when the relation is absent or has
\* no data the pass ends Waiting and submits nothing, and when every record
\* published is complete the pass submits the pod spec and ends Active.
C8_ObjectStorageDecides ==
    (PassEnded /\ InSeq("obj_storage", checked)) =>
        /\ ~ObjDataOk =>
              /\ status = WaitingStatus("Waiting for object-storage relation data")
              /\ ~Submitted
        /\ ObjCompleteOk =>
              /\ Submitted
              /\ status = ActiveStatus

----------------------------------------------------------------------------
(* C9 *)

\* C9 as claimed: a pod spec is submitted only in a pass where exactly one
\* object-storage provider has published data and exactly one database relation
\* exists.
C9_ExactlyOneProvider ==
    Submitted => Len(env.objStorage.data) = 1 /\ Len(env.db) = 1

----------------------------------------------------------------------------
(* C10 *)

\* C10: on a leader with a valid bucket name, a pass whose negotiation fails
\* ends at that check: Waiting when no versions are listed, Blocked when no
\* version is compatible, the status message (and unit.message) the text of the
\* library's error, and neither set_spec nor send_data called.
C10_NegotiationFailure ==
    (LeaderOk /\ BucketOk /\ ~NegotiationOk
        /\ pc \notin {"idle", "check_leader", "validate_bucket", "get_interfaces"}) =>
        /\ pc = "done"
        /\ status = [kind |-> IF env.negotiation.exc = "NoVersionsListed"
                              THEN "Waiting" ELSE "Blocked",
                     msg |-> env.negotiation.text]
        /\ message = env.negotiation.text
        /\ effects = <<>>

\* A pass has ended Blocked on NoCompatibleVersions, with the ingress relation
\* present.
C10_Witness ==
    /\ pc = "done"
    /\ LeaderOk /\ BucketOk /\ env.ingress
    /\ env.negotiation.exc = "NoCompatibleVersions"
    /\ status.kind = "Blocked"
    /\ status.msg = env.negotiation.text

----------------------------------------------------------------------------
(* C11 *)

\* C11: on a leader with a valid bucket name and a successful negotiation, a pass
\* whose image fetch fails ends at that check with the status type and the status
\* message the fetch error carries (unit.message the same text), and calls
\* neither set_spec nor send_data.
C11_ImageErrorPassThrough ==
    (LeaderOk /\ BucketOk /\ NegotiationOk /\ ~ImageOk
        /\ pc \notin {"idle", "check_leader", "validate_bucket", "get_interfaces",
                      "check_image"}) =>
        /\ pc = "done"
        /\ status = [kind |-> env.image.status_type, msg |-> env.image.status_message]
        /\ message = env.image.status_message
        /\ effects = <<>>
        /\ error = None

\* A pass has ended Waiting on a fetch error that carries Waiting, the ingress
\* relation present and the rest of the deployment complete.
C11_Witness ==
    /\ pc = "done"
    /\ LeaderOk /\ BucketOk /\ NegotiationOk /\ env.ingress
    /\ DbCompleteOk /\ ObjCompleteOk
    /\ env.image.exc = "OCIImageResourceError"
    /\ env.image.status_type = "Waiting"
    /\ status = WaitingStatus("Resource not yet available: oci-image")

----------------------------------------------------------------------------
(* C12 *)

\* The names of the S3 naming grammar: 3 to 63 characters, lowercase letters,
\* digits, hyphens and dots only, every piece between dots starting and ending
\* with a letter or digit, the whole not numbers separated by dots.
InGrammar(name) ==
    /\ Len(name) >= 3
    /\ Len(name) <= 63
    /\ \A i \in 1..Len(name) : name[i] \in LowerAlnum \cup {"-", "."}
    /\ LET parts == SplitDots(name) IN
       \A i \in 1..Len(parts) :
          /\ parts[i] # <<>>
          /\ parts[i][1] # "-"
          /\ parts[i][Len(parts[i])] # "-"
    /\ ~DottedNumbers(name)

\* C12 as claimed: validate_s3_bucket_name returns a name of the grammar
\* unchanged and raises a Blocked CheckFailedError for every other name, and a
\* leader's pass over a name outside the grammar ends Blocked at the bucket check
\* with no pod spec submitted.
C12_BucketNameValidation ==
    LET name == env.config.default_artifact_root
        r == validate_s3_bucket_name(name)
    IN InSeq("bucket", checked) =>
          /\ InGrammar(name) =>
                /\ r.ok /\ r.value = name
                /\ locals.default_artifact_root = name
          /\ ~InGrammar(name) =>
                /\ ~r.ok /\ r.raised.status_type = "Blocked"
                /\ pc = "done"
                /\ status.kind = "Blocked"
                /\ ~Submitted

----------------------------------------------------------------------------
(* C13 *)

\* Everything a pass needs but the ingress relation: the leader, a valid bucket
\* name, negotiation and image resolved, one database relation and object
\* storage, every record published complete.
AllButIngressOk == EarlyChecksOk /\ DbCompleteOk /\ ObjCompleteOk

\* C13: no pass calls send_data more than once; a pass with everything in place
\* and the ingress relation present calls it exactly once, with prefix "/mlflow/",
\* rewrite "/", the application name and the configured mlflow_port, and ends
\* Active; with the ingress relation absent it never calls it and still ends
\* Active.
C13_IngressPublishedOnce ==
    /\ Count("send_data", effects) <= 1
    /\ (PassEnded /\ AllButIngressOk) =>
          /\ pc = "done"
          /\ status = ActiveStatus
          /\ env.ingress =>
                /\ Count("send_data", effects) = 1
                /\ ingressData = << [prefix |-> "/mlflow/", rewrite |-> "/",
                                     service |-> "mlflow-server",
                                     port |-> env.config.mlflow_port] >>
          /\ ~env.ingress => Count("send_data", effects) = 0

\* A pass with the ingress relation present has ended Active after one send_data.
C13_Witness ==
    /\ pc = "done"
    /\ AllButIngressOk /\ env.ingress
    /\ status = ActiveStatus
    /\ effects = <<"send_data", "set_spec">>

----------------------------------------------------------------------------
(* C14 *)

\* "http://<service>.<namespace>:<port>" of an object-storage record, encoded.
EncodedEndpoint(obj_storage) ==
    b64encode(Utf8(T_http \o obj_storage["service"] \o T_dot \o obj_storage["namespace"]
                       \o T_colon \o obj_storage["port"]))

\* C14 as claimed: once a pass has built the secrets from an object-storage
\* record, RCLONE_CONFIG_S3_ENDPOINT of the seldon secret and AWS_ENDPOINT_URL of
\* the minio secret encode the same text, http://<service>.<namespace>:<port>,
\* and the two secrets hold the same access key and the same secret key.
C14_SameEndpointAndKeys ==
    locals.secrets # <<>> =>
        LET minio == locals.secrets[1].data
            seldon == locals.secrets[2].data
        IN /\ minio["AWS_ENDPOINT_URL"] = EncodedEndpoint(locals.obj_storage[1])
           /\ seldon["RCLONE_CONFIG_S3_ENDPOINT"] = minio["AWS_ENDPOINT_URL"]
           /\ seldon["RCLONE_CONFIG_S3_ACCESS_KEY_ID"] = minio["AWS_ACCESS_KEY_ID"]
           /\ seldon["RCLONE_CONFIG_S3_SECRET_ACCESS_KEY"] = minio["AWS_SECRET_ACCESS_KEY"]

----------------------------------------------------------------------------
(* C15 *)

\* The data of the secret of a pod spec that has the name given.
SecretData(spec, name) ==
    LET secrets == spec.kubernetesResources.secrets
        i == CHOOSE j \in 1..Len(secrets) : secrets[j].name = name
    IN secrets[i].data

\* "mysql+pymysql://root:<root_password>@<host>:<port>/<database>" of a record
TrackingUri(d) ==
    <<"m","y","s","q","l","+","p","y","m","y","s","q","l",":","/","/","r","o","o","t",":">>
        \o d.root_password \o <<"@">> \o d.host \o <<":">> \o d.port \o <<"/">> \o d.database

\* C15: a pass of a leader with a valid bucket name, negotiation and image
\* resolved, one database relation with complete records and object-storage data
\* with complete records calls set_spec exactly once and ends Active; the spec's
\* MLFLOW_S3_ENDPOINT_URL is http://<service>.<namespace>:<port> of the (first)
\* object-storage record, and MLFLOW_TRACKING_URI of its db secret is the base64
\* encoding of mysql+pymysql://root:<root_password>@<host>:<port>/<database> of
\* the database record.
C15_EndToEnd ==
    (PassEnded /\ AllButIngressOk) =>
        /\ pc = "done"
        /\ status = ActiveStatus
        /\ Count("set_spec", effects) = 1
        /\ podSpec # <<>>
        /\ LET spec == podSpec[1]
               obj == env.objStorage.data[1]
           IN /\ spec.containers[1].envConfig["MLFLOW_S3_ENDPOINT_URL"] =
                    "http://" \o Str(obj["service"]) \o "." \o Str(obj["namespace"])
                        \o ":" \o Str(obj["port"])
              /\ \E d \in env.db[1] :
                    SecretData(spec, "mlflow-server-db-secret")["MLFLOW_TRACKING_URI"] =
                        b64encode(Utf8(TrackingUri(d)))

\* A pass has ended Active with the endpoint http://minio.ns:9000 and the db
\* secret base64("mysql+pymysql://root:pw@h:3306/mlflow").
C15_Witness ==
    /\ pc = "done"
    /\ status = ActiveStatus
    /\ effects = <<"set_spec">>
    /\ podSpec[1].containers[1].envConfig["MLFLOW_S3_ENDPOINT_URL"] = "http://minio.ns:9000"
    /\ SecretData(podSpec[1], "mlflow-server-db-secret")["MLFLOW_TRACKING_URI"] =
          "bXlzcWwrcHlteXNxbDovL3Jvb3Q6cHdAaDozMzA2L21sZmxvdw=="

----------------------------------------------------------------------------
(* C16 *)

\* The services of a spec are the three claimed, the first one named first.
ThreeServices(spec, first) ==
    LET svc == spec.kubernetesResources.services
        config == env.config
    IN /\ Len(svc) = 3
       /\ svc[1].name = first
       /\ svc[1].spec.type = "NodePort"
       /\ svc[1].spec.ports = << [protocol |-> "TCP", port |-> config.mlflow_port,
                                  targetPort |-> config.mlflow_port,
                                  nodePort |-> config.mlflow_nodeport] >>
       /\ svc[2].name = "kubeflow-external"
       /\ svc[2].spec.type = "NodePort"
       /\ svc[2].spec.ports = << [protocol |-> "TCP", port |-> config.kubeflow_port,
                                  targetPort |-> config.kubeflow_port,
                                  nodePort |-> config.kubeflow_nodeport] >>
       /\ svc[3].name = "kubeflow-external-lb"
       /\ svc[3].spec.type = "LoadBalancer"
       /\ svc[3].spec.ports = << [protocol |-> "TCP", port |-> config.kubeflow_port,
                                  targetPort |-> config.kubeflow_port] >>

\* The env bindings of a spec name the db and minio secrets of the application,
\* and the spec defines both.
SecretsBound(spec) ==
    LET envConfig == spec.containers[1].envConfig
        defined == { spec.kubernetesResources.secrets[i].name :
                        i \in 1..Len(spec.kubernetesResources.secrets) }
    IN /\ envConfig["db-secret"] = [secret |-> [name |-> AppName \o "-db-secret"]]
       /\ envConfig["aws-secret"] = [secret |-> [name |-> AppName \o "-minio-secret"]]
       /\ AppName \o "-db-secret" \in defined
       /\ AppName \o "-minio-secret" \in defined

\* C16 as claimed: the spec a pass has just submitted defines exactly three
\* services, <app>-external (NodePort, mlflow_port, nodePort mlflow_nodeport),
\* kubeflow-external (NodePort, kubeflow_port, nodePort kubeflow_nodeport) and
\* kubeflow-external-lb (LoadBalancer, kubeflow_port), <app> the name of the
\* application, and its env bindings name <app>-db-secret and
\* <app>-minio-secret, secrets the spec defines.
C16_ServicesAndSecretsNamedAfterApp ==
    Submitted =>
        /\ ThreeServices(podSpec[1], AppName \o "-external")
        /\ SecretsBound(podSpec[1])

----------------------------------------------------------------------------
(* C17 *)

\* C17 as claimed: a pass that runs with the leadership, configuration, relation
\* contents and image result of the pass before it ends as that pass ended:
\* the same status, the same spec submitted, the same secrets; and a pass with
\* every precondition satisfied ends Active whatever the passes before it left.
C17_SameInputsSameOutcome ==
    /\ (PassEnded /\ last # <<>>) => Outcome = last[1]
    /\ (PassEnded /\ AllButIngressOk) => status = ActiveStatus

----------------------------------------------------------------------------
(* C18 *)

\* The checks of the running handler, so far, are the first checks of main, in
\* main's order.
ChainFromLeadership ==
    /\ Len(checked) <= Len(StepOrder)
    /\ checked = SubSeq(StepOrder, 1, Len(checked))

\* C18 as claimed: whatever observed event is being handled or was handled last,
\* install, leader-elected, upgrade-charm, config-changed, db relation-changed,
\* object-storage relation-changed, ingress relation-changed, pod-defaults
\* relation-joined or relation-changed, the handler is main, and its checks are
\* the chain that starts with the leadership check.
C18_EveryEventRunsMain ==
    pc # "idle" =>
        /\ locals.event[1] \in ObservedEvents
        /\ InPass
        /\ ChainFromLeadership

\* C18, amended: the seven events install, leader-elected, upgrade-charm,
\* config-changed, db relation-changed, object-storage relation-changed and
\* ingress relation-changed are handled by main, whose checks are the chain that
\* starts with the leadership check; pod-defaults relation-joined and
\* relation-changed are handled by another handler, which makes the negotiation
\* check only (no leadership, bucket-name or image check) and calls neither
\* set_spec nor send_data.
C18_MainEventsRunMain ==
    pc # "idle" =>
        /\ locals.event[1] \in ObservedEvents
        /\ locals.event[1] \in MainEvents =>
              /\ InPass
              /\ ChainFromLeadership
        /\ locals.event[1] \in PodDefaultsEvents =>
              /\ ~InPass
              /\ checked \in { <<>>, <<"interfaces">> }
              /\ pc # "pd_get_interfaces" => checked = <<"interfaces">>
              /\ ~Submitted
              /\ ~Published

\* The handler of pod-defaults relation-joined has run to its end on a unit that
\* is not the leader, negotiation failing: it has made the negotiation check,
\* not the leadership check, and set the status.
C18_Witness ==
    /\ pc = "pd_done"
    /\ locals.event = <<"pod_defaults_relation_joined">>
    /\ ~LeaderOk
    /\ checked = <<"interfaces">>
    /\ status.kind = "Blocked"

----------------------------------------------------------------------------
(* C19 *)

\* No pass calls set_spec twice; a pass that is over has left Active exactly
\* when it called set_spec; a pass that has failed has not called it; and from
\* the call on the status is the transitional one until it is Active.
C19_SubmittedIffActive ==
    /\ Count("set_spec", effects) <= 1
    /\ PassEnded => (status = ActiveStatus <=> Submitted)
    /\ PassFailed => ~Submitted
    /\ Submitted => status \in {MaintenanceStatus("Setting pod spec"), ActiveStatus}

\* set_spec is called while the status is the transitional one, and leaves it.
C19_SubmitUnderMaintenance ==
    (Submitted' /\ ~Submitted) =>
        /\ status = MaintenanceStatus("Setting pod spec")
        /\ status' = status

\* The status becomes Active only from the transitional one, set_spec called.
C19_ActiveAfterSubmit ==
    (status' = ActiveStatus /\ status # ActiveStatus) =>
        /\ status = MaintenanceStatus("Setting pod spec")
        /\ Submitted

\* C19: a pass calls set_spec at most once and ends Active if and only if it
\* called it; in a pass that succeeds the status is first set to the
\* transitional Maintenance, then set_spec is called, then the status is set to
\* Active; a pass that ends Waiting or Blocked has not called set_spec.
C19_SubmitOnceThenActive ==
    /\ [](C19_SubmittedIffActive)
    /\ [][C19_SubmitUnderMaintenance]_vars
    /\ [][C19_ActiveAfterSubmit]_vars

\* A pass has called set_spec and not yet set Active: the status is the
\* transitional one.
C19_Witness ==
    /\ pc = "set_active"
    /\ effects = <<"set_spec">>
    /\ status = MaintenanceStatus("Setting pod spec")
    /\ podSpec # <<>>

----------------------------------------------------------------------------
(* C20 *)

\* A step after which the current pass has not called set_spec leaves the spec
\* the platform holds as it was.
C20_SpecKept == ~Submitted' => podSpec' = podSpec

\* A step after which the current pass has called neither set_spec nor
\* send_data leaves the spec and the ingress data as they were.
C20_SpecAndIngressKept ==
    (~Submitted' /\ ~Published') => (podSpec' = podSpec /\ ingressData' = ingressData)

\* C20 as claimed: a pass that ends Waiting or Blocked has changed nothing but
\* the unit status: it has called neither set_spec nor send_data, so the spec the
\* platform holds (and the ingress data) are those the passes before it left.
C20_FailingPassChangesOnlyStatus ==
    /\ [](PassFailed => (~Submitted /\ ~Published))
    /\ [][C20_SpecAndIngressKept]_vars

\* C20, amended: a pass that ends Waiting or Blocked has not called set_spec, and
\* the spec the platform holds is the one the last successful pass submitted,
\* whatever failing passes have followed; besides the unit status, a failing pass
\* changes the ingress data when the ingress relation is present and the pass
\* fails at a database or object-storage check (it has then called send_data),
\* and nothing else.
C20_FailingPassKeepsSpec ==
    /\ [](PassFailed =>
            /\ ~Submitted
            /\ Published <=> (EarlyChecksOk /\ env.ingress))
    /\ [][C20_SpecKept]_vars
    /\ [][C20_SpecAndIngressKept]_vars

\* A pass has ended Waiting for object-storage data that is no longer there,
\* after sending the ingress data, and the platform still holds the spec an
\* earlier pass submitted.
C20_Witness ==
    /\ pc = "done"
    /\ status = WaitingStatus("Waiting for object-storage relation data")
    /\ ~ObjDataOk
    /\ effects = <<"send_data">>
    /\ podSpec # <<>>

----------------------------------------------------------------------------
(* C21 *)

\* C21 as claimed: while the inputs stay what they were at the last pass of
\* main, whatever events follow and whichever handler runs them, the status a
\* handler leaves is the status that pass left; in particular the pod-defaults
\* handler, running or over, has not replaced it.
C21_StatusIsThatOfAPass ==
    (last # <<>> /\ (PassEnded \/ ~InPass)) => status = last[1].status

----------------------------------------------------------------------------
(* C22 *)

\* The pod-defaults handler is running.
InPodDefaults == pc \in {"pd_get_interfaces", "pd_publish", "pd_requirements"}

\* The pod-defaults handler, running or over, has called neither set_spec nor
\* send_data; what it has written so far is the pod-defaults key, then the
\* requirements key; and the endpoint it has computed is the
\* MLFLOW_S3_ENDPOINT_URL main puts in the pod spec for the same record.
C22_HandlerWrites ==
    (pc # "idle" /\ ~InPass) =>
        /\ ~Submitted
        /\ ~Published
        /\ effects \in { <<>>, <<"pod-defaults">>, <<"pod-defaults", "requirements">> }
        /\ locals.endpoint # <<>> =>
              /\ locals.endpoint[1] =
                    PodSpec(env.config, <<>>, ImageDetails, locals.obj_storage[1], <<>>)
                        .containers[1].envConfig["MLFLOW_S3_ENDPOINT_URL"]
              /\ podDefaults.app =
                    << PodDefaultsJson(locals.obj_storage[1], locals.endpoint[1],
                                       locals.tracking[1]) >>

\* A step of the pod-defaults handler leaves the pod spec and the ingress data
\* as they were, the status too when negotiation succeeds, and changes the
\* relation data only as it writes a key.
C22_HandlerFrame ==
    InPodDefaults =>
        /\ UNCHANGED <<podSpec, ingressData>>
        /\ NegotiationOk => status' = status
        /\ podDefaults' # podDefaults => Len(effects') = Len(effects) + 1

\* C22: the pod-defaults handler never calls set_spec or send_data; when
\* negotiation succeeds it leaves the unit status as it was and writes only the
\* pod-defaults and requirements keys of the relation; and the
\* MLFLOW_S3_ENDPOINT_URL it publishes is the one a pass of main puts in the pod
\* spec for the same object-storage record.
C22_PodDefaultsFrame == [](C22_HandlerWrites) /\ [][C22_HandlerFrame]_vars

\* The handler has run to its end after a pass of main that ended Active: both
\* keys written, the published endpoint that of the pod spec the platform holds,
\* the status still Active.
C22_Witness ==
    /\ pc = "pd_done"
    /\ effects = <<"pod-defaults", "requirements">>
    /\ status = ActiveStatus
    /\ podSpec # <<>>
    /\ locals.endpoint = << podSpec[1].containers[1].envConfig["MLFLOW_S3_ENDPOINT_URL"] >>
    /\ podDefaults.app =
          << "{\"minio\": {\"env\": {\"AWS_ACCESS_KEY_ID\": \"ak\", "
               \o "\"AWS_SECRET_ACCESS_KEY\": \"sk\", "
               \o "\"MLFLOW_S3_ENDPOINT_URL\": \"http://minio.ns:9000\", "
               \o "\"MLFLOW_TRACKING_URI\": "
               \o "\"http://mlflow-server.kubeflow.svc.cluster.local:5000\"}}}" >>
    /\ podDefaults.unit = <<"['mlflow', 'boto3']">>

----------------------------------------------------------------------------
(* C23 *)

\* C23 as claimed: whatever the object-storage relation holds (no relation, no
\* data, a partial record, a complete record), on the leader and on other units,
\* no error escapes the pod-defaults handler, and once it is over it has either
\* written pod defaults built from a complete record or written nothing.
C23_NoErrorEscapesPodDefaults ==
    /\ pc # "pd_crashed"
    /\ pc = "pd_done" =>
          /\ error = None
          /\ \/ effects = <<>>
             \/ /\ InSeq("pod-defaults", effects)
                /\ Missing(locals.obj_storage[1], MinioKeys) = {}

====
